---- MODULE Spec2Model ----
(***************************************************************************)
(* PandoraTrace: the trace comparison engine of                            *)
(* src/pandora_trace/comparison.py (TraceComparator).                      *)
(*                                                                         *)
(* Numbers: the program computes in IEEE doubles; the model computes the   *)
(* same expressions in exact rational arithmetic, a rational being a pair  *)
(* <<numerator, denominator>> in lowest terms with a positive denominator. *)
(***************************************************************************)
EXTENDS Integers, Sequences, FiniteSets, TLC

\* ------------------------------------------------------------------ bounds
\* Most rows a data source returns for one query.
MaxRows == 2
\* Largest count (column "c") in a row.
MaxCount == 2
\* Most candidate values the catalog lists for one parameter.
MaxValues == 2
\* Most templates in a caller-supplied list.
MaxQueries == 2

\* ----------------------------------------------------------------- helpers
Range(s) == {s[i] : i \in DOMAIN s}

Abs(x) == IF x < 0 THEN -x ELSE x

RECURSIVE GCD(_, _)
GCD(a, b) == IF b = 0 THEN a ELSE GCD(b, a % b)

\* The rational n/d (d > 0) in lowest terms.
Rat(n, d) == LET g == GCD(Abs(n), d) IN <<n \div g, d \div g>>

Zero == <<0, 1>>
RAdd(p, q) == Rat(p[1] * q[2] + q[1] * p[2], p[2] * q[2])
RSub(p, q) == Rat(p[1] * q[2] - q[1] * p[2], p[2] * q[2])
RMul(p, q) == Rat(p[1] * q[1], p[2] * q[2])
RAbs(p) == <<Abs(p[1]), p[2]>>
RLe(p, q) == p[1] * q[2] <= q[1] * p[2]
RLt(p, q) == p[1] * q[2] < q[1] * p[2]

RECURSIVE RSum(_)
RSum(s) == IF s = <<>> THEN Zero ELSE RAdd(s[1], RSum(Tail(s)))

RECURSIVE IntSum(_)
IntSum(s) == IF s = <<>> THEN 0 ELSE s[1] + IntSum(Tail(s))

\* All the orders in which the elements of the set S can be enumerated.
Enumerations(S) ==
    {o \in [1..Cardinality(S) -> S] : \A i, j \in DOMAIN o : i # j => o[i] # o[j]}

\* -------------------------------------------------------------- result sets
\* A result set is a DataFrame with the columns "f" (feature) and "c" (count):
\* a sequence of rows.  The templates group by the feature, so the features of
\* one result set are distinct, and a count is the number of spans of a group,
\* hence positive.
FeatureValues == {0, 1, 3}

Rows == [f : FeatureValues, c : 1..MaxCount]

Column(df, col) == [i \in DOMAIN df |-> df[i][col]]

ResultSets ==
    {df \in UNION {[1..n -> Rows] : n \in 0..MaxRows} :
        \A i, j \in DOMAIN df : i # j => df[i].f # df[j].f}

\* ------------------------------------------------- _calculate_wasserstein
\* The counts left as they are, not divided by their sum.
NotNormalized(df, total) ==
    [i \in DOMAIN df |-> [f |-> df[i].f, c |-> Rat(df[i].c, 1)]]

\* syn["c"] = syn["c"] / syn["c"].sum()
Normalize(df, total) ==
    [i \in DOMAIN df |-> [f |-> df[i].f, c |-> Rat(df[i].c, total)]]

NormalizeSyn(syn) == Normalize(syn, IntSum(Column(syn, "c")))

\* A slip of the pen on line 198: real divided by the sum of syn.
NormalizeRealBySyn(syn, real) == Normalize(real, IntSum(Column(syn, "c")))

NormalizeReal(syn, real) == Normalize(real, IntSum(Column(real, "c")))

\* set(syn["f"].values) | set(real["f"].values)
AllFeatures(syn, real) == Range(Column(syn, "f")) \cup Range(Column(real, "f"))

\* df.set_index("f").reindex(all_features).fillna(0)["c"]: the column c in the
\* order `order` of the features, 0 where df has no row for the feature.
Reindex(df, order) ==
    [i \in DOMAIN order |->
        IF \E j \in DOMAIN df : df[j].f = order[i]
        THEN df[CHOOSE j \in DOMAIN df : df[j].f = order[i]].c
        ELSE Zero]

\* values.searchsorted(x, 'right') / len(values): the share of values <= x.
CdfRight(values, x) ==
    Rat(Cardinality({i \in DOMAIN values : RLe(values[i], x)}), Len(values))

\* searchsorted(x, 'left'): the share of values < x.
CdfLeft(values, x) ==
    Rat(Cardinality({i \in DOMAIN values : RLt(values[i], x)}), Len(values))

\* The gap from x to the next larger value of all_values.
Delta(all_values, x) ==
    LET above == {y \in all_values : RLt(x, y)}
        next == CHOOSE y \in above : \A z \in above : RLe(y, z)
    IN RSub(next, x)

\* The sum over all_values[:-1] of |U - V| times the gap to the next value.
RECURSIVE CdfDistance(_, _, _)
CdfDistance(u, v, todo) ==
    IF todo = {} THEN Zero
    ELSE LET x == CHOOSE y \in todo : TRUE
         IN RAdd(RMul(RAbs(RSub(CdfRight(u, x), CdfRight(v, x))),
                      Delta(Range(u) \cup Range(v), x)),
                 CdfDistance(u, v, todo \ {x}))

\* all_values[:-1]: every value of u and v but the largest.
AllButLargest(u, v) ==
    LET all_values == Range(u) \cup Range(v)
    IN {x \in all_values : \E y \in all_values : RLt(x, y)}

\* The two cumulative distributions read at different sides of a step.
RECURSIVE CdfDistanceLeftRight(_, _, _)
CdfDistanceLeftRight(u, v, todo) ==
    IF todo = {} THEN Zero
    ELSE LET x == CHOOSE y \in todo : TRUE
         IN RAdd(RMul(RAbs(RSub(CdfRight(u, x), CdfLeft(v, x))),
                      Delta(Range(u) \cup Range(v), x)),
                 CdfDistanceLeftRight(u, v, todo \ {x}))

WassersteinDistanceLeftRight(u_values, v_values) ==
    CdfDistanceLeftRight(u_values, v_values, AllButLargest(u_values, v_values))

\* scipy.stats.wasserstein_distance(u_values, v_values) without weights: the
\* integral of |U - V| for the empirical distribution functions U and V of the
\* two samples, every sample point weighing the same.
WassersteinDistance(u_values, v_values) ==
    CdfDistance(u_values, v_values, AllButLargest(u_values, v_values))

\* _calculate_wasserstein(syn, real), `order` being the order in which Python
\* enumerates the set all_features.
CalculateWasserstein(syn, real, order) ==
    LET syn_n == NormalizeSyn(syn)
        real_n == NormalizeReal(syn, real)
    IN WassersteinDistance(Reindex(syn_n, order), Reindex(real_n, order))

\* np.mean(distances)
Mean(ds) == RMul(RSum(ds), <<1, Len(ds)>>)

\* ------------------------------------------------------ templates, catalogs
\* The text of a query is a sequence of tokens: a piece of literal text or a
\* replacement field {name}.
Text(s) == [kind |-> "text", val |-> s]
Field(n) == [kind |-> "field", val |-> n]

QueryTemplate(n, q) == [name |-> n, query |-> q]

\* The parameter catalog is a dict: its keys in insertion order, each with the
\* list of its candidate values.
Entry(n, vs) == [name |-> n, values |-> vs]
Keys(parameters) == [i \in DOMAIN parameters |-> parameters[i].name]
Get(parameters, n) ==
    parameters[CHOOSE i \in DOMAIN parameters : parameters[i].name = n].values

EmptyDict == [n \in {} |-> n]

\* new_partial = partial.copy(); new_partial[name] = value
With(partial, n, value) ==
    [k \in DOMAIN partial \cup {n} |-> IF k = n THEN value ELSE partial[k]]

\* ------------------------------------------------------ _iterate_parameters
\* {t[1] for t in Formatter().parse(query) if t[1] is not None}
QueryParams(query) ==
    {query[i].val : i \in {j \in DOMAIN query : query[j].kind = "field"}}

\* The relevant parameters taken in the order of the template, not of the catalog.
RECURSIVE Dedup(_)
Dedup(s) ==
    IF s = <<>> THEN <<>>
    ELSE LET rest == Dedup(SubSeq(s, 1, Len(s) - 1))
         IN IF s[Len(s)] \in Range(rest) THEN rest ELSE Append(rest, s[Len(s)])

RelevantParamsTemplateOrder(query, parameters) ==
    LET fields == SelectSeq(query, LAMBDA t : t.kind = "field")
    IN SelectSeq(Dedup([i \in DOMAIN fields |-> fields[i].val]),
                 LAMBDA p : p \in Range(Keys(parameters)))

\* [p for p in parameters if p in query_params]
RelevantParams(query, parameters) ==
    SelectSeq(Keys(parameters), LAMBDA p : p \in QueryParams(query))

\* _inner(partial, params_left): the bindings in the order the generator yields them.
RECURSIVE Inner(_, _, _)
RECURSIVE InnerLoop(_, _, _, _)
Inner(parameters, partial, params_left) ==
    IF params_left = <<>> THEN <<partial>>
    ELSE InnerLoop(parameters, partial, params_left, 1)

\* for value in parameters[name], from the k-th candidate on
InnerLoop(parameters, partial, params_left, k) ==
    LET name == params_left[1]
        values == Get(parameters, name)
    IN IF k > Len(values) THEN <<>>
       ELSE Inner(parameters, With(partial, name, values[k]), Tail(params_left))
            \o InnerLoop(parameters, partial, params_left, k + 1)

\* A generator whose base case returns without yielding.
IterateParametersNoYield(query, parameters) ==
    LET all == Inner(parameters, EmptyDict, RelevantParams(query, parameters))
    IN IF RelevantParams(query, parameters) = <<>> THEN <<>> ELSE all

IterateParametersTemplateOrder(query, parameters) ==
    Inner(parameters, EmptyDict, RelevantParamsTemplateOrder(query, parameters))

\* _iterate_parameters(query, parameters)
IterateParameters(query, parameters) ==
    Inner(parameters, EmptyDict, RelevantParams(query, parameters))

\* ---------------------------------------------------------- _execute_query
\* query.format(table_name=table, **params): the exception it raises, or "none".
\* A keyword given twice is rejected when the call is made, before the text is
\* scanned; a replacement field without a keyword raises KeyError.
FormatError(query, table, params) ==
    IF "table_name" \in DOMAIN params THEN "TypeError"
    ELSE IF \E n \in QueryParams(query) : n \notin DOMAIN params \cup {"table_name"}
         THEN "KeyError"
         ELSE "none"

\* The formatted text: every field replaced by the value of its keyword.
Format(query, table, params) ==
    LET kwargs == With(params, "table_name", table)
    IN [i \in DOMAIN query |->
           IF query[i].kind = "field" THEN kwargs[query[i].val] ELSE query[i].val]

\* --------------------------------------------------------- default_queries
\* The ten built-in templates: their names and, in the order of the text, the
\* replacement fields of their queries (the SQL between the fields is kept as
\* one piece of text per gap).
Sql(n, fields) ==
    QueryTemplate(n,
        [i \in 1..(2 * Len(fields) + 1) |->
            IF i % 2 = 1 THEN Text(<<n, (i + 1) \div 2>>) ELSE Field(fields[i \div 2])])

default_queries ==
    << Sql("error_traces", <<"table_name", "table_name", "entry_point">>),
       Sql("attribute_traces",
           <<"attr_name", "table_name", "table_name", "entry_point", "attr_name">>),
       Sql("system_architecture",
           <<"table_name", "table_name", "service_name", "service_name2">>),
       Sql("bottlenecks", <<"table_name", "table_name", "entry_point", "service_name">>),
       Sql("red_rate", <<"table_name", "service_name">>),
       Sql("red_error", <<"table_name", "service_name">>),
       Sql("red_duration", <<"table_name", "service_name">>),
       Sql("attribute_frequency", <<"attr_name", "table_name", "attr_name">>),
       Sql("attribute_max_window", <<"int_attr_name", "table_name", "service_name">>),
       Sql("filtered_attribute_frequency",
           <<"attr_name", "table_name", "service_name", "attr_name">>) >>

\* ------------------------------------------------------------------ inputs
\* Candidate values and parameter names of the catalogs.
ValueSet == {"x", "y"}
ParamNames == {"a", "b", "table_name"}
\* Most keys of a catalog.
MaxParams == 2

CandidateLists == UNION {[1..n -> ValueSet] : n \in 0..MaxValues}

Catalogs ==
    {cat \in UNION {[1..n -> [name : ParamNames, values : CandidateLists]] :
                        n \in 0..MaxParams} :
        \A i, j \in DOMAIN cat : i # j => cat[i].name # cat[j].name}

\* Caller-supplied templates.
PlainQuery == Sql("plain", <<"table_name">>)
FilterQuery == Sql("filter", <<"table_name", "a">>)
PairQuery == Sql("pair", <<"b", "table_name", "a", "b">>)
AttrQuery == Sql("attr", <<"attr_name", "table_name">>)
ConstQuery == Sql("const", <<>>)
AttrFilterQuery == Sql("attr_filter", <<"attr_name", "table_name", "a">>)

ExpanderQueries == {PlainQuery, FilterQuery, PairQuery, AttrQuery, ConstQuery}

\* The templates and catalogs compare_traces is called with.
UserQueries == {PlainQuery, FilterQuery, AttrQuery, AttrFilterQuery}

QueryLists ==
    {l \in UNION {[1..n -> UserQueries] : n \in 0..MaxQueries} :
        \A i, j \in DOMAIN l : i # j => l[i].name # l[j].name}

\* Optional[List[QueryTemplate]]: None, or a list.
QueryArgs ==
    {[given |-> FALSE, list |-> <<>>]} \cup {[given |-> TRUE, list |-> l] : l \in QueryLists}

CompareCatalogs ==
    {cat \in Catalogs :
        \A i \in DOMAIN cat :
            /\ cat[i].name \in {"a", "table_name"}
            /\ \A j, k \in DOMAIN cat[i].values :
                   j # k => cat[i].values[j] # cat[i].values[k]}

\* A catalog that binds the parameter of the first built-in template.
EntryPointCatalog == <<Entry("entry_point", <<"x">>)>>

\* The two tables compared.
table1 == "syn_table"
table2 == "real_table"

\* What the data source answers to a query it accepts.
DataSourceResults ==
    { <<>>,
      <<[f |-> 0, c |-> 1], [f |-> 1, c |-> 1]>>,
      <<[f |-> 0, c |-> 2]>>,
      <<[f |-> 1, c |-> 1]>> }

\* ------------------------------------------------------------------- state
VARIABLES
    pc,          \* where the call is
    queries_arg, \* compare_traces: the argument `queries`
    parameters,  \* the parameter catalog
    queries,     \* compare_traces: the local `queries`
    results,     \* compare_traces: results
    qi,          \* position of the loop over queries
    bindings,    \* the bindings _iterate_parameters generates
    bi,          \* position of the loop over the bindings
    distances,   \* compare_traces: distances
    syn_data,    \* result set of table1
    real_data,   \* result set of table2
    error,       \* the exception that left the call, or "none"
    returned,    \* the value compare_traces returned
    executed,    \* the queries handed to the data source, in order
    hist,        \* the bindings completed: template, binding, both result sets
    distance,    \* the value _calculate_wasserstein returned
    query,       \* _iterate_parameters: the argument `query`
    yielded,     \* the bindings the generator has yielded, in order
    benign_traces,            \* merge_with_exp: the argument benign_traces
    incident_traces,          \* merge_with_exp: the argument incident_traces
    merged_traces,            \* merge_with_exp: merged_traces
    time_until_next_incident, \* merge_with_exp: the countdown, in half units
    ti                        \* position of the loop over benign_traces

cvars == <<pc, queries_arg, parameters, queries, results, qi, bindings, bi, distances,
           syn_data, real_data, error, returned, executed, hist, distance, query, yielded>>

mvars == <<benign_traces, incident_traces, merged_traces, time_until_next_incident, ti>>

vars == <<cvars, mvars>>

\* merge_with_exp is not running.
MergeIdle ==
    /\ benign_traces = <<>>
    /\ incident_traces = <<>>
    /\ merged_traces = <<>>
    /\ time_until_next_incident = 0
    /\ ti = 1

Idle ==
    /\ queries = <<>>
    /\ results = EmptyDict
    /\ qi = 1
    /\ bindings = <<>>
    /\ bi = 1
    /\ distances = <<>>
    /\ error = "none"
    /\ returned = EmptyDict
    /\ executed = <<>>
    /\ hist = <<>>
    /\ distance = Zero
    /\ yielded = <<>>

\* ---------------------------------------------------------- compare_traces
Init ==
    /\ pc = "call"
    /\ queries_arg \in QueryArgs
    /\ parameters \in CompareCatalogs \cup {EntryPointCatalog}
    /\ query = <<>>
    /\ syn_data = <<>>
    /\ real_data = <<>>
    /\ Idle
    /\ MergeIdle

\* queries = queries or self.default_queries; results = {}
Call ==
    /\ pc = "call"
    /\ queries' = IF queries_arg.given /\ queries_arg.list # <<>>
                  THEN queries_arg.list ELSE default_queries
    /\ results' = EmptyDict
    /\ qi' = 1
    /\ pc' = "for_query"
    /\ UNCHANGED <<mvars, queries_arg, parameters, bindings, bi, distances, syn_data, real_data,
                   error, returned, executed, hist, distance, query, yielded>>

\* for query_template in queries: distances = []; the generator is made
ForQuery ==
    /\ pc = "for_query"
    /\ qi <= Len(queries)
    /\ distances' = <<>>
    /\ bindings' = IterateParameters(queries[qi].query, parameters)
    /\ bi' = 1
    /\ pc' = "for_params"
    /\ UNCHANGED <<mvars, queries_arg, parameters, queries, results, qi, syn_data, real_data,
                   error, returned, executed, hist, distance, query, yielded>>

\* What the data source does with a query: it rejects it, or answers with rows.
Answers ==
    {[rejected |-> TRUE, rows |-> <<>>]}
        \cup {[rejected |-> FALSE, rows |-> r] : r \in DataSourceResults}

\* An executor that catches the data source's error and returns no rows.
ExecuteQuerySwallow(q, table, params, answer) ==
    LET e == FormatError(q, table, params)
    IN IF e # "none" THEN [raised |-> e, data |-> <<>>, asked |-> FALSE]
       ELSE [raised |-> "none", data |-> answer.rows, asked |-> TRUE]

\* _execute_query(query, table, params), `answer` being what the data source
\* does if it is asked: the exception raised (or "none"), the DataFrame
\* returned, and whether pd.read_sql_query was reached.
ExecuteQuery(q, table, params, answer) ==
    LET e == FormatError(q, table, params)
    IN IF e # "none" THEN [raised |-> e, data |-> <<>>, asked |-> FALSE]
       ELSE IF answer.rejected
            THEN [raised |-> "DatabaseError", data |-> <<>>, asked |-> TRUE]
            ELSE [raised |-> "none", data |-> answer.rows, asked |-> TRUE]

\* The log of the data source after the call.
Asked(log, n, q, table, params, answer) ==
    IF FormatError(q, table, params) # "none" THEN log
    ELSE Append(log, [name |-> n, table |-> table, query |-> q,
                      text |-> Format(q, table, params), rejected |-> answer.rejected])

\* syn_data = self._execute_query(query_template.query, table1, params)
ExecuteSyn ==
    /\ pc = "for_params"
    /\ bi <= Len(bindings)
    /\ \E answer \in Answers :
        LET t == queries[qi]
            r == ExecuteQuery(t.query, table1, bindings[bi], answer)
        IN /\ executed' = Asked(executed, t.name, t.query, table1, bindings[bi], answer)
           /\ error' = r.raised
           /\ syn_data' = r.data
           /\ pc' = IF r.raised # "none" THEN "raised" ELSE "syn_done"
    /\ UNCHANGED <<mvars, queries_arg, parameters, queries, results, qi, bindings, bi, distances,
                   real_data, returned, hist, distance, query, yielded>>

\* An empty side counted as the distance 0.
ComparedEmptyAsZero(ds, syn, real, order) ==
    IF Len(syn) > 0 /\ Len(real) > 0
    THEN Append(ds, CalculateWasserstein(syn, real, order))
    ELSE Append(ds, Zero)

\* The distances after the pair (syn, real) of one binding: lines 179-182.
Compared(ds, syn, real, order) ==
    IF Len(syn) > 0 /\ Len(real) > 0
    THEN Append(ds, CalculateWasserstein(syn, real, order))
    ELSE ds

\* real_data = self._execute_query(query_template.query, table2, params), and
\* the comparison of the two result sets
ExecuteReal ==
    /\ pc = "syn_done"
    /\ \E answer \in Answers :
        LET t == queries[qi]
            r == ExecuteQuery(t.query, table2, bindings[bi], answer)
        IN /\ executed' = Asked(executed, t.name, t.query, table2, bindings[bi], answer)
           /\ error' = r.raised
           /\ real_data' = r.data
           /\ IF r.raised # "none"
              THEN /\ pc' = "raised"
                   /\ UNCHANGED <<distances, hist, bi>>
              ELSE /\ \E order \in Enumerations(AllFeatures(syn_data, r.data)) :
                          distances' = Compared(distances, syn_data, r.data, order)
                   /\ hist' = Append(hist, [name |-> t.name, params |-> bindings[bi],
                                            syn |-> syn_data, real |-> r.data])
                   /\ bi' = bi + 1
                   /\ pc' = "for_params"
    /\ UNCHANGED <<mvars, queries_arg, parameters, queries, results, qi, bindings, syn_data,
                   returned, distance, query, yielded>>

\* The mean recorded whether or not a distance was produced (0 for none).
RecordedAlways(res, n, ds) == With(res, n, IF ds # <<>> THEN Mean(ds) ELSE Zero)

\* if distances: results[query_template.name] = np.mean(distances)
Recorded(res, n, ds) == IF ds # <<>> THEN With(res, n, Mean(ds)) ELSE res

Aggregate ==
    /\ pc = "for_params"
    /\ bi > Len(bindings)
    /\ results' = Recorded(results, queries[qi].name, distances)
    /\ qi' = qi + 1
    /\ pc' = "for_query"
    /\ UNCHANGED <<mvars, queries_arg, parameters, queries, bindings, bi, distances, syn_data,
                   real_data, error, returned, executed, hist, distance, query, yielded>>

\* return results
Return ==
    /\ pc = "for_query"
    /\ qi > Len(queries)
    /\ returned' = results
    /\ pc' = "done"
    /\ UNCHANGED <<mvars, queries_arg, parameters, queries, results, qi, bindings, bi, distances,
                   syn_data, real_data, error, executed, hist, distance, query, yielded>>

Next == Call \/ ForQuery \/ ExecuteSyn \/ ExecuteReal \/ Aggregate \/ Return

Spec == Init /\ [][Next]_vars

\* -------------------------------------- _calculate_wasserstein on its own
InitW ==
    /\ pc = "w_call"
    /\ syn_data \in ResultSets \ {<<>>}
    /\ real_data \in ResultSets \ {<<>>}
    /\ queries_arg = [given |-> FALSE, list |-> <<>>]
    /\ parameters = <<>>
    /\ query = <<>>
    /\ Idle
    /\ MergeIdle

ComputeW ==
    /\ pc = "w_call"
    /\ \E order \in Enumerations(AllFeatures(syn_data, real_data)) :
           distance' = CalculateWasserstein(syn_data, real_data, order)
    /\ pc' = "w_return"
    /\ UNCHANGED <<mvars, queries_arg, parameters, queries, results, qi, bindings, bi, distances,
                   syn_data, real_data, error, returned, executed, hist, query, yielded>>

NextW == ComputeW

SpecW == InitW /\ [][NextW]_vars

\* ----------------------------------------- _iterate_parameters on its own
InitP ==
    /\ pc = "p_call"
    /\ query \in {t.query : t \in ExpanderQueries}
    /\ parameters \in Catalogs
    /\ queries_arg = [given |-> FALSE, list |-> <<>>]
    /\ syn_data = <<>>
    /\ real_data = <<>>
    /\ Idle
    /\ MergeIdle

\* The call: the generator is made.
IterCall ==
    /\ pc = "p_call"
    /\ bindings' = IterateParameters(query, parameters)
    /\ bi' = 1
    /\ pc' = "p_iter"
    /\ UNCHANGED <<mvars, queries_arg, parameters, queries, results, qi, distances, syn_data,
                   real_data, error, returned, executed, hist, distance, query, yielded>>

\* The consumer takes the next binding.
IterYield ==
    /\ pc = "p_iter"
    /\ bi <= Len(bindings)
    /\ yielded' = Append(yielded, bindings[bi])
    /\ bi' = bi + 1
    /\ UNCHANGED <<mvars, pc, queries_arg, parameters, queries, results, qi, bindings, distances,
                   syn_data, real_data, error, returned, executed, hist, distance, query>>

\* The generator is exhausted.
IterStop ==
    /\ pc = "p_iter"
    /\ bi > Len(bindings)
    /\ pc' = "p_done"
    /\ UNCHANGED <<mvars, queries_arg, parameters, queries, results, qi, bindings, bi, distances,
                   syn_data, real_data, error, returned, executed, hist, distance, query,
                   yielded>>

NextP == IterCall \/ IterYield \/ IterStop

SpecP == InitP /\ [][NextP]_vars

\* ------------------------------------ merge_with_exp (run_benchmark.py)
\* Most benign traces, most incident traces, and the largest draw of
\* random.expovariate (in half units of the countdown).
MaxBenign == 4
MaxIncidents == 2
MaxDelay == 3
\* The threshold of line 168 (10_000 in the program), scaled to the model.
MergedLimit == 2

Trace(k, n) == [kind |-> k, id |-> n]

BenignLists == {[i \in 1..n |-> Trace("benign", i)] : n \in 0..MaxBenign}
IncidentLists == {[i \in 1..n |-> Trace("incident", i)] : n \in 0..MaxIncidents}

\* random.expovariate(exp_lambda): any non-negative time, 0 included; counted
\* in halves, so that the countdown `-= 1` takes 2 off.
ExpoVariate == 0..MaxDelay

\* The incident appended and the benign trace appended after it as well.
IncidentAndBenign(merged, incidents, trace) ==
    Append(Append(merged, incidents[Len(incidents)]), trace)

\* merged_traces.append(incident_traces.pop()): the list merged_traces after it
IncidentAppended(merged, incidents, trace) ==
    Append(merged, incidents[Len(incidents)])

\* incident_traces.pop(): the list incident_traces after it
Popped(incidents) == SubSeq(incidents, 1, Len(incidents) - 1)

InitM ==
    /\ pc = "m_call"
    /\ benign_traces \in BenignLists
    /\ incident_traces \in IncidentLists
    /\ merged_traces = <<>>
    /\ time_until_next_incident = 0
    /\ ti = 1
    /\ queries_arg = [given |-> FALSE, list |-> <<>>]
    /\ parameters = <<>>
    /\ query = <<>>
    /\ syn_data = <<>>
    /\ real_data = <<>>
    /\ Idle

\* merged_traces = []; time_until_next_incident = random.expovariate(exp_lambda)
MergeCall ==
    /\ pc = "m_call"
    /\ merged_traces' = <<>>
    /\ time_until_next_incident' \in ExpoVariate
    /\ ti' = 1
    /\ pc' = "m_loop"
    /\ UNCHANGED <<benign_traces, incident_traces, queries_arg, parameters, queries,
                   results, qi, bindings, bi, distances, syn_data, real_data, error,
                   returned, executed, hist, distance, query, yielded>>

\* An incident is due and one is left: it takes the place of the trace visited.
MergeIncident ==
    /\ pc = "m_loop"
    /\ ti <= Len(benign_traces)
    /\ time_until_next_incident <= 0
    /\ incident_traces # <<>>
    /\ merged_traces' = IncidentAppended(merged_traces, incident_traces, benign_traces[ti])
    /\ incident_traces' = Popped(incident_traces)
    /\ time_until_next_incident' \in ExpoVariate
    /\ ti' = ti + 1
    /\ UNCHANGED <<cvars, benign_traces>>

\* No incident is due: the trace visited is appended, the countdown goes on.
MergeBenign ==
    /\ pc = "m_loop"
    /\ ti <= Len(benign_traces)
    /\ time_until_next_incident > 0
    /\ merged_traces' = Append(merged_traces, benign_traces[ti])
    /\ time_until_next_incident' = time_until_next_incident - 2
    /\ ti' = ti + 1
    /\ UNCHANGED <<cvars, benign_traces, incident_traces>>

\* An incident is due, none is left, few traces merged: raise Exception(...)
MergeRaise ==
    /\ pc = "m_loop"
    /\ ti <= Len(benign_traces)
    /\ time_until_next_incident <= 0
    /\ incident_traces = <<>>
    /\ ~(Len(merged_traces) > MergedLimit)
    /\ error' = "Exception"
    /\ pc' = "m_raised"
    /\ UNCHANGED <<mvars, queries_arg, parameters, queries, results, qi, bindings, bi,
                   distances, syn_data, real_data, returned, executed, hist, distance,
                   query, yielded>>

\* An incident is due, none is left, enough traces merged: break, and return
MergeBreak ==
    /\ pc = "m_loop"
    /\ ti <= Len(benign_traces)
    /\ time_until_next_incident <= 0
    /\ incident_traces = <<>>
    /\ Len(merged_traces) > MergedLimit
    /\ pc' = "m_return"
    /\ UNCHANGED <<mvars, queries_arg, parameters, queries, results, qi, bindings, bi,
                   distances, syn_data, real_data, error, returned, executed, hist,
                   distance, query, yielded>>

\* The loop has visited every benign trace: return merged_traces
MergeReturn ==
    /\ pc = "m_loop"
    /\ ti > Len(benign_traces)
    /\ pc' = "m_return"
    /\ UNCHANGED <<mvars, queries_arg, parameters, queries, results, qi, bindings, bi,
                   distances, syn_data, real_data, error, returned, executed, hist,
                   distance, query, yielded>>

NextM == MergeCall \/ MergeIncident \/ MergeBenign \/ MergeRaise \/ MergeBreak \/ MergeReturn

SpecM == InitM /\ [][NextM]_vars

\* ================================================================= claims

\* The first-order Wasserstein distance between two result sets read as
\* distributions over their features: the features are the sample points, the
\* normalized counts their weights.
FeatureCdf(df, x) ==
    Rat(IntSum([i \in DOMAIN df |-> IF df[i].f <= x THEN df[i].c ELSE 0]),
        IntSum(Column(df, "c")))

RECURSIVE FeatureTransport(_, _, _)
FeatureTransport(syn, real, todo) ==
    IF todo = {} THEN Zero
    ELSE LET x == CHOOSE y \in todo : TRUE
             above == {y \in AllFeatures(syn, real) : y > x}
             next == CHOOSE y \in above : \A z \in above : y <= z
         IN RAdd(RMul(RAbs(RSub(FeatureCdf(syn, x), FeatureCdf(real, x))), <<next - x, 1>>),
                 FeatureTransport(syn, real, todo \ {x}))

FeatureWasserstein(syn, real) ==
    LET support == AllFeatures(syn, real)
    IN FeatureTransport(syn, real, {x \in support : \E y \in support : y > x})

\* C1: for non-empty result sets A and B, _calculate_wasserstein returns the
\* first-order Wasserstein distance between the two normalized distributions
\* over the union support, the features being the sample points and the
\* probabilities the weights.
C1_DistanceOverFeatures ==
    pc = "w_return" => distance = FeatureWasserstein(syn_data, real_data)

\* The placeholders of a template that the catalog lacks, table_name apart.
MissingParams(q, cat) == QueryParams(q) \ (Range(Keys(cat)) \cup {"table_name"})

\* C2: if a template of the call references a placeholder (other than
\* table_name) absent from the catalog, compare_traces raises the
\* missing-parameter error (KeyError is the one the code has), no query having
\* been handed to the data source; it does not return.  (Stated for the
\* catalogs without a key table_name, which C8 is about.)
C2_MissingParameterRaisesBeforeAnyQuery ==
    (/\ pc # "call"
     /\ "table_name" \notin Range(Keys(parameters))
     /\ \E i \in DOMAIN queries : MissingParams(queries[i].query, parameters) # {})
        => /\ executed = <<>>
           /\ pc # "done"
           /\ pc = "raised" => error = "KeyError"

\* The catalog parameters that occur as placeholders in the template, by
\* their positions in the catalog.
RelevantPositions(q, cat) ==
    {i \in DOMAIN cat : \E j \in DOMAIN q : q[j].kind = "field" /\ q[j].val = cat[i].name}

RECURSIVE Product(_, _)
Product(cat, positions) ==
    IF positions = {} THEN 1
    ELSE LET i == CHOOSE j \in positions : TRUE
         IN Len(cat[i].values) * Product(cat, positions \ {i})

\* The candidate of the parameter at position i in the k-th binding (k from 0)
\* of the product, the earlier position varying slowest.
Candidate(q, cat, i, k) ==
    LET later == {j \in RelevantPositions(q, cat) : j > i}
    IN cat[i].values[((k \div Product(cat, later)) % Len(cat[i].values)) + 1]

\* C3: _iterate_parameters yields one binding per element of the cartesian
\* product of the candidate lists of the catalog parameters that occur as
\* placeholders in the template, each binding's keys being exactly those
\* parameters, in lexicographic order of the list positions with the first
\* parameter of the catalog varying slowest.
C3_BindingsAreTheOrderedProduct ==
    pc = "p_done" =>
        LET rel == RelevantPositions(query, parameters)
        IN /\ Len(yielded) = Product(parameters, rel)
           /\ \A k \in DOMAIN yielded :
                /\ DOMAIN yielded[k] = {parameters[i].name : i \in rel}
                /\ \A i \in rel :
                       yielded[k][parameters[i].name] = Candidate(query, parameters, i, k - 1)

\* The example of the specification: a -> [x, y], b -> [x, y] and a template
\* that names b before a.
C3_Witness ==
    /\ pc = "p_done"
    /\ query = PairQuery.query
    /\ parameters = <<Entry("a", <<"x", "y">>), Entry("b", <<"x", "y">>)>>
    /\ yielded = << [a |-> "x", b |-> "x"], [a |-> "x", b |-> "y"],
                    [a |-> "y", b |-> "x"], [a |-> "y", b |-> "y"] >>

\* C4: for a template that references no catalog parameter, whatever the
\* catalog holds, _iterate_parameters yields exactly one binding, the empty
\* mapping.
C4_NoParameterYieldsTheEmptyBinding ==
    (pc = "p_done" /\ RelevantPositions(query, parameters) = {})
        => yielded = <<EmptyDict>>

C4_Witness ==
    /\ pc = "p_done"
    /\ query = PlainQuery.query
    /\ parameters = <<Entry("b", <<"x", "y">>), Entry("a", <<>>)>>
    /\ yielded = <<EmptyDict>>

\* The completed bindings of template n whose result sets were non-empty on
\* both sides.
Usable(n) ==
    SelectSeq(hist, LAMBDA h : h.name = n /\ h.syn # <<>> /\ h.real # <<>>)

TemplateNames == {queries[i].name : i \in DOMAIN queries}

\* C5: in the map compare_traces returns, a template name is present if and
\* only if one of its bindings produced non-empty result sets on both
\* datasets.
C5_PresentIffSomeBindingUsable ==
    pc = "done" =>
        /\ DOMAIN returned \subseteq TemplateNames
        /\ \A n \in TemplateNames : n \in DOMAIN returned <=> Usable(n) # <<>>

\* A template whose bindings all ran and all had an empty side is absent,
\* beside a template that is present.
C5_Witness ==
    /\ pc = "done"
    /\ \E n \in TemplateNames :
          /\ n \notin DOMAIN returned
          /\ Cardinality({i \in DOMAIN hist : hist[i].name = n}) = 2
    /\ DOMAIN returned # {}

\* The distance of a completed binding.
DistanceOf(h) ==
    CalculateWasserstein(h.syn, h.real,
        CHOOSE order \in Enumerations(AllFeatures(h.syn, h.real)) : TRUE)

\* C6: the score of every template in the result is the arithmetic mean of
\* the distances of exactly the bindings whose result sets were non-empty on
\* both datasets.
C6_ScoreIsMeanOfUsableBindings ==
    pc = "done" =>
        \A n \in DOMAIN returned :
            LET us == Usable(n)
            IN /\ us # <<>>
               /\ returned[n] = Mean([i \in DOMAIN us |-> DistanceOf(us[i])])

\* Two bindings of one template: one skipped for an empty side, one with
\* the distance 1/2; the score is 1/2, not 1/4.
C6_Witness ==
    /\ pc = "done"
    /\ "filter" \in DOMAIN returned
    /\ returned["filter"] = <<1, 2>>
    /\ Cardinality({i \in DOMAIN hist : hist[i].name = "filter"}) = 2
    /\ Len(Usable("filter")) = 1

\* C7: if the data source rejects a query, the error leaves compare_traces
\* as the data source's error (DatabaseError in the code): the call does not
\* go on, returns no map, and the failing template has no score.
C7_RejectionPropagates ==
    (\E i \in DOMAIN executed : executed[i].rejected) =>
        /\ pc = "raised"
        /\ error = "DatabaseError"
        /\ executed[Len(executed)].rejected
        /\ executed[Len(executed)].name \notin DOMAIN results

\* The rejection comes after a usable binding of the same template and after
\* another template was recorded.
C7_Witness ==
    /\ pc = "raised"
    /\ error = "DatabaseError"
    /\ executed[Len(executed)].rejected
    /\ distances # <<>>
    /\ DOMAIN results # {}

\* C8: table_name is bound by _execute_query to the dataset and never from
\* the catalog: a catalog key table_name appears in no binding, the query is
\* executed with table_name equal to the dataset, and no error results.
C8_TableNameNeverFromCatalog ==
    /\ \A i \in DOMAIN bindings : "table_name" \notin DOMAIN bindings[i]
    /\ error # "TypeError"
    /\ \A i \in DOMAIN executed :
          \A j \in DOMAIN executed[i].query :
              (executed[i].query[j] = Field("table_name"))
                  => executed[i].text[j] = executed[i].table

\* The same feature/count pairs on both sides, in whatever order of the rows.
SameRows(a, b) == Range(a) = Range(b)

\* C9: for identical non-empty result sets the distance is exactly 0.
C9_IdenticalResultSetsAtDistanceZero ==
    (pc = "w_return" /\ SameRows(syn_data, real_data)) => distance = Zero

C9_Witness ==
    /\ pc = "w_return"
    /\ SameRows(syn_data, real_data)
    /\ syn_data # real_data
    /\ syn_data[1].c # syn_data[2].c
    /\ distance = Zero

\* C10: the distance is symmetric: _calculate_wasserstein(A, B) equals
\* _calculate_wasserstein(B, A).
C10_DistanceIsSymmetric ==
    pc = "w_return" =>
        \A order \in Enumerations(AllFeatures(real_data, syn_data)) :
            distance = CalculateWasserstein(real_data, syn_data, order)

C10_Witness ==
    /\ pc = "w_return"
    /\ IntSum(Column(syn_data, "c")) # IntSum(Column(real_data, "c"))
    /\ Len(syn_data) # Len(real_data)
    /\ distance # Zero

\* C11: when both result sets hold only one and the same feature value, the
\* distance is 0 whatever the two positive counts are: each side is divided
\* by its own count sum.
C11_SingleSharedFeatureAtDistanceZero ==
    (pc = "w_return" /\ Cardinality(AllFeatures(syn_data, real_data)) = 1)
        => distance = Zero

C11_Witness ==
    /\ pc = "w_return"
    /\ Len(syn_data) = 1
    /\ Len(real_data) = 1
    /\ syn_data[1].f = real_data[1].f
    /\ syn_data[1].c # real_data[1].c
    /\ distance = Zero

\* The names of the templates the caller supplied.
SuppliedNames == {queries_arg.list[i].name : i \in DOMAIN queries_arg.list}

\* C12: when the caller passes a list of templates, only those templates are
\* executed and every key of the result is the name of one of them; a
\* supplied empty list executes no query and returns an empty map.
C12_OnlySuppliedTemplatesRun ==
    queries_arg.given =>
        /\ \A i \in DOMAIN executed : executed[i].name \in SuppliedNames
        /\ pc = "done" => DOMAIN returned \subseteq SuppliedNames
        /\ queries_arg.list = <<>> =>
              /\ executed = <<>>
              /\ pc # "raised"

\* An incident is due at the trace the loop is about to visit and none is left.
RanOut ==
    /\ pc = "m_loop"
    /\ ti <= Len(benign_traces)
    /\ time_until_next_incident <= 0
    /\ incident_traces = <<>>

\* What holds of merged_traces all along.
MergedShape ==
    /\ Len(merged_traces) <= ti - 1
    /\ ti - 1 <= Len(benign_traces)
    /\ \A k \in DOMAIN merged_traces :
          \/ merged_traces[k] = benign_traces[k]
          \/ /\ merged_traces[k].kind = "incident"
             /\ benign_traces[k] \notin Range(merged_traces)
             /\ merged_traces[k] \notin Range(incident_traces)
    /\ \A j, k \in DOMAIN merged_traces :
          (j < k /\ merged_traces[j].kind = "benign" /\ merged_traces[k].kind = "benign")
              => merged_traces[j].id < merged_traces[k].id
    /\ \A j, k \in DOMAIN merged_traces :
          (j # k /\ merged_traces[j].kind = "incident") => merged_traces[j] # merged_traces[k]

\* C13: merge_with_exp appends at most one trace per benign trace visited (the
\* output is never longer than the benign list), the benign traces that
\* appear keep their order, an incident appears at most once and leaves the
\* incident list, a benign trace visited when an incident is due is replaced
\* by it, and when an incident is due and none is left the function raises if
\* at most MergedLimit traces are merged and else returns what is merged.
C13_MergeShapeAndRunOut ==
    /\ [](pc \in {"m_loop", "m_raised", "m_return"} => MergedShape)
    /\ [][RanOut =>
            /\ merged_traces' = merged_traces
            /\ IF Len(merged_traces) <= MergedLimit
               THEN pc' = "m_raised" /\ error' = "Exception"
               ELSE pc' = "m_return" /\ error' = "none"]_vars

\* The run stopped early, after an incident took the place of a benign trace.
C13_Witness ==
    /\ pc = "m_return"
    /\ ti <= Len(benign_traces)
    /\ Len(merged_traces) > MergedLimit
    /\ \E k \in DOMAIN merged_traces : merged_traces[k].kind = "incident"
    /\ \E k \in DOMAIN merged_traces : merged_traces[k].kind = "benign"

====
